---- MODULE Spec2Model ----
(***************************************************************************)
(* Model of etl.py: a batch job that loads song records and log records,  *)
(* writes the dimension tables songs, artists, users and time, and joins  *)
(* log events with song records into the fact table songplays.            *)
(*                                                                         *)
(* Two specifications:                                                     *)
(*   SpecStartup  the module body (lines 9-13): the configuration file is  *)
(*                read and the credentials are exported;                   *)
(*   Spec         main() (lines 133-143): context bootstrap, song stage,   *)
(*                log stage up to the query of line 111, whose text the    *)
(*                SQL parser rejects, and a further invocation on          *)
(*                unchanged input.                                         *)
(*                                                                         *)
(* An epoch-millisecond value ts is held as the record [s, ms] with        *)
(* ts = 1000 * s + ms, because ts itself exceeds the 32-bit integers of    *)
(* the model checker.  Calendar fields are computed in UTC.                *)
(***************************************************************************)
EXTENDS Integers, Sequences, FiniteSets, Bags, TLC

VARIABLES
    pc,               \* position of the single thread of control
    run,              \* number of the current invocation of main()
    cfgFile,          \* the file dl.cfg
    config,           \* the ConfigParser object config
    environ,          \* os.environ restricted to the two credential names
    songInput,        \* the records under song_data/*/*/*/*.json
    logInput,         \* the records under log_data/*/*/*.json
    df,               \* the stage's DataFrame df
    song_df,          \* log stage: the songs table as re-read at line 108
    songs_table,      \* storage: songs_table/
    artists_table,    \* storage: artists_table/
    users_table,      \* storage: users_table/
    time_table,       \* storage: time_table
    songplays_table,  \* storage: songplays_table/ (a bag of rows; never written)
    written,          \* tables overwritten by the current invocation
    failedAt,         \* where the current invocation raised, and what
    firstRun          \* the five tables as the first completed run left them

vars == <<pc, run, cfgFile, config, environ, songInput, logInput, df, song_df,
          songs_table, artists_table, users_table, time_table,
          songplays_table, written, failedAt, firstRun>>

\* Bounds of the model.
MaxSongRecords == 2
MaxLogRecords == 2
MaxRuns == 2

None == "None"

----------------------------------------------------------------------------
(* Calendar arithmetic on epoch seconds (UTC).                             *)

\* Civil date of a day number counted from 1970-01-01.
CivilFromDays(days) ==
    LET z    == days + 719468
        era  == z \div 146097
        doe  == z - era * 146097
        yoe  == (doe - doe \div 1460 + doe \div 36524 - doe \div 146096) \div 365
        doy  == doe - (365 * yoe + yoe \div 4 - yoe \div 100)
        mp   == (5 * doy + 2) \div 153
        d    == doy - (153 * mp + 2) \div 5 + 1
        m    == IF mp < 10 THEN mp + 3 ELSE mp - 9
        y    == yoe + era * 400 + (IF m <= 2 THEN 1 ELSE 0)
    IN  [year |-> y, month |-> m, day |-> d]

\* Day number counted from 1970-01-01 of a civil date.
DaysFromCivil(y, m, d) ==
    LET yy   == IF m <= 2 THEN y - 1 ELSE y
        era  == yy \div 400
        yoe  == yy - era * 400
        mm   == IF m > 2 THEN m - 3 ELSE m + 9
        doy  == (153 * mm + 2) \div 5 + d - 1
        doe  == yoe * 365 + yoe \div 4 - yoe \div 100 + doy
    IN  era * 146097 + doe - 719468

\* ISO weekday of a day number, Monday = 1 .. Sunday = 7.
IsoWeekday(days) == ((days + 3) % 7) + 1

\* ISO-8601 week number of a civil date: the week of the date's Thursday,
\* counted within the year that Thursday falls in.
IsoWeek(y, m, d) ==
    LET days     == DaysFromCivil(y, m, d)
        thursday == days - IsoWeekday(days) + 4
        ty       == CivilFromDays(thursday).year
    IN  (thursday - DaysFromCivil(ty, 1, 1)) \div 7 + 1

----------------------------------------------------------------------------
(* The data the runs are checked on.                                       *)

SongRecord(sid, title, aid, yr, dur, aname, aloc) ==
    [song_id |-> sid, title |-> title, artist_id |-> aid, year |-> yr,
     duration |-> dur, artist_name |-> aname, artist_location |-> aloc,
     artist_latitude |-> None, artist_longitude |-> None]

LogRecord(ts, uid, lvl, sess, art, sng) ==
    [ts |-> ts, userId |-> uid, level |-> lvl, sessionId |-> sess,
     location |-> "Houston", userAgent |-> "Mozilla", firstName |-> "Ryan",
     lastName |-> "Smith", gender |-> "M", song |-> sng, artist |-> art]

\* Two records share song_id and artist_id and differ elsewhere; two records
\* with distinct song_id share artist name and title.
SongRecords ==
    { SongRecord("SOxxx", "You Gotta Be", "ARxxx", 1998, 240, "Des'ree", "London"),
      SongRecord("SOxxx", "Life", "ARxxx", 1998, 215, "Des'ree", "UK"),
      SongRecord("SOyyy", "You Gotta Be", "ARyyy", 1999, 241, "Des'ree", "London") }

\* 1542242481796 = 2018-11-15 00:41:21.796, 1546214400000 = 2018-12-31
\* 00:00:00 (ISO week 1), 1483228800000 = 2017-01-01 00:00:00 (ISO week 52).
LogRecords ==
    { LogRecord([s |-> 1542242481, ms |-> 796], "26", "free", 583, "Des'ree", "You Gotta Be"),
      LogRecord([s |-> 1546214400, ms |-> 0], "26", "paid", 584, "des'ree", "You Gotta Be"),
      LogRecord([s |-> 1483228800, ms |-> 0], "8", "free", 139, None, None) }

SeqsUpTo(S, n) == UNION { [1..k -> S] : k \in 0..n }

SongInputs == SeqsUpTo(SongRecords, MaxSongRecords)
LogInputs == SeqsUpTo(LogRecords, MaxLogRecords)

\* Contents of dl.cfg: the options as triples (section, key, value).  The
\* empty set is also what config.read() yields when the file is missing.
ConfigFiles ==
    { {},
      { <<"AWS", "AWS_ACCESS_KEY_ID", "AKIA">>,
        <<"AWS", "AWS_SECRET_ACCESS_KEY", "secret">> },
      { <<"AWS", "AWS_ACCESS_KEY_ID", "AKIA">> },
      { <<"AWS_ACCESS_KEY_ID", "value", "AKIA">>,
        <<"AWS_SECRET_ACCESS_KEY", "value", "secret">> },
      { <<"AWS_ACCESS_KEY_ID", "value", "AKIA">> } }

SongsTableColumns == {"song_id", "title", "artist_id", "year", "duration"}
ArtistsTableColumns ==
    {"artist_id", "artist_name", "artist_location", "artist_latitude",
     "artist_longitude"}
UsersTableColumns == {"userId", "firstName", "lastName", "gender", "level"}

EmptyTables ==
    [songs |-> {}, artists |-> {}, users |-> {}, time |-> {},
     songplays |-> EmptyBag]

Tables ==
    [songs |-> songs_table, artists |-> artists_table, users |-> users_table,
     time |-> time_table, songplays |-> songplays_table]

----------------------------------------------------------------------------
(* DataFrame operations.                                                   *)

\* df[c1, c2, ...]: the rows of df restricted to the given columns.
Select(frame, cols) ==
    { [c \in cols |-> frame[i][c]] : i \in DOMAIN frame }

\* Variant: the duplicates are not removed.
DropDuplicates_KeepAll(rows, key) == { rows }

\* Variant: every row whose key occurs more than once is removed.
DropDuplicates_KeepNone(rows, key) ==
    { { r \in rows : \A t \in rows : t[key] = r[key] => t = r } }

\* dropDuplicates([key]): the possible results; one row survives for every
\* value of key and which one is not determined.
DropDuplicates(rows, key) ==
    { T \in SUBSET rows :
        \A r \in rows : Cardinality({ t \in T : t[key] = r[key] }) = 1 }

\* get_datetime: str(datetime.fromtimestamp(int(x) / 1000.0)), the text
\* "YYYY-MM-DD HH:MM:SS.ffffff" as the sequence of its numbers; str() leaves
\* the fraction out when it is zero.
get_datetime(ts) ==
    LET days == ts.s \div 86400
        secs == ts.s % 86400
        date == CivilFromDays(days)
        head == << date.year, date.month, date.day,
                   secs \div 3600, (secs % 3600) \div 60, secs % 60 >>
    IN  IF ts.ms = 0 THEN head ELSE Append(head, ts.ms * 1000)

\* The column functions applied to the datetime text: the text is cast to a
\* timestamp and the field is taken from it.
year(text) == text[1]
month(text) == text[2]
dayofmonth(text) == text[3]
hour(text) == text[4]
\* Variant: the week is counted in blocks of seven days from January 1.
weekofyear_FromJanuary1(text) ==
    (DaysFromCivil(text[1], text[2], text[3])
       - DaysFromCivil(text[1], 1, 1)) \div 7 + 1

weekofyear(text) == IsoWeek(text[1], text[2], text[3])

\* The select of lines 93-100 for one log row.
TimeRow(l) ==
    LET datetime == get_datetime(l.ts)
    IN  [start_time |-> datetime, hour |-> hour(datetime),
         day |-> dayofmonth(datetime), week |-> weekofyear(datetime),
         month |-> month(datetime), year |-> year(datetime)]

TimeRows(frame) == { TimeRow(frame[i]) : i \in DOMAIN frame }

----------------------------------------------------------------------------
(* Module body, lines 9-13.                                                *)

NoFailure == [at |-> None, error |-> None]

EmptyEnviron == [AWS_ACCESS_KEY_ID |-> None, AWS_SECRET_ACCESS_KEY |-> None]

\* config[name]: the section of that name, or KeyError when there is none.
ConfigGetItem(cfg, name) ==
    IF \E o \in cfg : o[1] = name
    THEN [type |-> "SectionProxy", value |-> name]
    ELSE [type |-> "KeyError", value |-> name]

\* os.environ[key] = value: accepted only when value is a str.
EnvironSetItem(env, key, value) ==
    IF value.type = "str"
    THEN [error |-> None, env |-> [env EXCEPT ![key] = value.value]]
    ELSE [error |-> "TypeError", env |-> env]

\* Lines 12-13; the first statement that raises ends the process.
ExportResult(cfg, env) ==
    LET v1 == ConfigGetItem(cfg, "AWS_ACCESS_KEY_ID")
        r1 == EnvironSetItem(env, "AWS_ACCESS_KEY_ID", v1)
        v2 == ConfigGetItem(cfg, "AWS_SECRET_ACCESS_KEY")
        r2 == EnvironSetItem(r1.env, "AWS_SECRET_ACCESS_KEY", v2)
    IN  IF v1.type = "KeyError" THEN [error |-> "KeyError", env |-> env]
        ELSE IF r1.error # None THEN r1
        ELSE IF v2.type = "KeyError" THEN [error |-> "KeyError", env |-> r1.env]
        ELSE r2

\* The input files are given by the environment; the output location
\* starts empty.
InitData ==
    /\ run = 1
    /\ environ = EmptyEnviron
    /\ songInput \in SongInputs
    /\ logInput \in LogInputs
    /\ df = <<>>
    /\ song_df = {}
    /\ songs_table = {}
    /\ artists_table = {}
    /\ users_table = {}
    /\ time_table = {}
    /\ songplays_table = EmptyBag
    /\ written = {}
    /\ failedAt = NoFailure
    /\ firstRun = EmptyTables

InitStartup ==
    /\ pc = "load_config"
    /\ cfgFile \in ConfigFiles
    /\ config = {}
    /\ InitData

\* Lines 9-10: config = ConfigParser(); config.read('dl.cfg').
ReadConfig ==
    /\ pc = "load_config"
    /\ config' = cfgFile
    /\ pc' = "export"
    /\ UNCHANGED <<run, cfgFile, environ, songInput, logInput, df,
                   song_df, songs_table, artists_table, users_table,
                   time_table, songplays_table, written, failedAt, firstRun>>

\* Lines 12-13: the two assignments to os.environ; on success the module
\* body goes on to main().
ExportCredentials ==
    /\ pc = "export"
    /\ LET r == ExportResult(config, environ)
       IN  /\ environ' = r.env
           /\ pc' = IF r.error = None THEN "bootstrap" ELSE "aborted"
           /\ failedAt' = IF r.error = None THEN failedAt
                          ELSE [at |-> "export", error |-> r.error]
    /\ UNCHANGED <<run, cfgFile, config, songInput, logInput, df,
                   song_df, songs_table, artists_table, users_table,
                   time_table, songplays_table, written, firstRun>>

NextStartup == ReadConfig \/ ExportCredentials

SpecStartup == InitStartup /\ [][NextStartup]_vars

----------------------------------------------------------------------------
(* main(), lines 133-143.                                                  *)

\* main() is entered; it reads neither config nor os.environ.
Init ==
    /\ pc = "bootstrap"
    /\ cfgFile = {}
    /\ config = {}
    /\ InitData

\* Variant: the exception is caught and main() returns normally.
Raised_Caught(at, error) ==
    /\ pc' = "done"
    /\ failedAt' = [at |-> at, error |-> error]

\* An exception leaves main(): nothing catches it.
Raised(at, error) ==
    /\ pc' = "aborted"
    /\ failedAt' = [at |-> at, error |-> error]

\* Line 138, create_spark_session(): getOrCreate() hands out the session.
create_spark_session ==
    /\ pc = "bootstrap"
    /\ pc' = "song_read"
    /\ UNCHANGED <<run, cfgFile, config, environ, songInput, logInput,
                   df, song_df, songs_table, artists_table,
                   users_table, time_table, songplays_table, written,
                   failedAt, firstRun>>

\* Lines 34-40: read the song files; without a record there is no column
\* to select and the stage raises.
ReadSongData ==
    /\ pc = "song_read"
    /\ IF songInput = <<>>
       THEN Raised("song_read", "AnalysisException") /\ df' = <<>>
       ELSE pc' = "songs_write" /\ df' = songInput /\ UNCHANGED failedAt
    /\ UNCHANGED <<run, cfgFile, config, environ, songInput, logInput,
                   song_df, songs_table, artists_table, users_table,
                   time_table, songplays_table, written, firstRun>>

\* The results lines 40-41 can give.
SongsTableResults(frame) ==
    DropDuplicates(Select(frame, SongsTableColumns), "song_id")

\* Lines 40-46: songs_table, mode overwrite.
WriteSongsTable ==
    /\ pc = "songs_write"
    /\ \E t \in SongsTableResults(df) : songs_table' = t
    /\ written' = written \cup {"songs"}
    /\ pc' = "artists_write"
    /\ UNCHANGED <<run, cfgFile, config, environ, songInput, logInput,
                   df, song_df, artists_table, users_table,
                   time_table, songplays_table, failedAt, firstRun>>

\* The results lines 49-51 can give.
ArtistsTableResults(frame) ==
    DropDuplicates(Select(frame, ArtistsTableColumns), "artist_id")

\* Lines 49-55: artists_table, mode overwrite; process_song_data returns.
WriteArtistsTable ==
    /\ pc = "artists_write"
    /\ \E t \in ArtistsTableResults(df) : artists_table' = t
    /\ written' = written \cup {"artists"}
    /\ pc' = "log_read"
    /\ UNCHANGED <<run, cfgFile, config, environ, songInput, logInput,
                   df, song_df, songs_table, users_table,
                   time_table, songplays_table, failedAt, firstRun>>

\* Lines 68-75: read the log files.
ReadLogData ==
    /\ pc = "log_read"
    /\ IF logInput = <<>>
       THEN Raised("log_read", "AnalysisException") /\ df' = <<>>
       ELSE pc' = "users_write" /\ df' = logInput /\ UNCHANGED failedAt
    /\ UNCHANGED <<run, cfgFile, config, environ, songInput, logInput,
                   song_df, songs_table, artists_table, users_table,
                   time_table, songplays_table, written, firstRun>>

\* The results lines 78-79 can give.
UsersTableResults(frame) ==
    DropDuplicates(Select(frame, UsersTableColumns), "userId")

\* Lines 78-82: users_table, mode overwrite.
WriteUsersTable ==
    /\ pc = "users_write"
    /\ \E t \in UsersTableResults(df) : users_table' = t
    /\ written' = written \cup {"users"}
    /\ pc' = "time_write"
    /\ UNCHANGED <<run, cfgFile, config, environ, songInput, logInput,
                   df, song_df, songs_table, artists_table,
                   time_table, songplays_table, failedAt, firstRun>>

\* The results lines 85-101 can give.
TimeTableResults(frame) == DropDuplicates(TimeRows(frame), "start_time")

\* Lines 85-105: time_table, mode overwrite.
WriteTimeTable ==
    /\ pc = "time_write"
    /\ \E t \in TimeTableResults(df) : time_table' = t
    /\ written' = written \cup {"time"}
    /\ pc' = "songs_reread"
    /\ UNCHANGED <<run, cfgFile, config, environ, songInput, logInput,
                   df, song_df, songs_table, artists_table,
                   users_table, songplays_table, failedAt, firstRun>>

\* Line 108: song_df = spark.read.parquet(output_data + 'songs_table/').
ReadSongsTable ==
    /\ pc = "songs_reread"
    /\ song_df' = songs_table
    /\ pc' = "query"
    /\ UNCHANGED <<run, cfgFile, config, environ, songInput, logInput,
                   df, songs_table, artists_table, users_table,
                   time_table, songplays_table, written, failedAt, firstRun>>

\* The aliases of the query text of lines 111-125 that are written as string
\* literals ('start_time', 'month', ...): the positions in the SELECT list.
StringLiteralAliases == {1, 2, 3, 4, 5, 8, 10}

\* spark.sql(text) parses the text before it looks up any view; the grammar
\* takes an alias only as an identifier, so a SELECT list with an alias
\* written as a string literal is rejected.
ParseResult(literalAliases) ==
    IF literalAliases = {} THEN None ELSE "ParseException"

\* Variant: the query is accepted and keeps every log event, matched or
\* not (no join condition), and its rows are written to songplays_table.
SongplaysSql_EveryEvent ==
    /\ pc = "query"
    /\ songplays_table' =
          SetToBag({ [start_time |-> [s |-> df[i].ts.s, us |-> 1000 * df[i].ts.ms],
                      user_id |-> df[i].userId, level |-> df[i].level,
                      session_id |-> df[i].sessionId,
                      location |-> df[i].location,
                      user_agent |-> df[i].userAgent] : i \in DOMAIN df })
    /\ written' = written \cup {"songplays"}
    /\ pc' = "done"
    /\ UNCHANGED <<run, cfgFile, config, environ, songInput, logInput,
                   df, song_df, songs_table, artists_table,
                   users_table, time_table, failedAt, firstRun>>

\* Lines 111-125: spark.sql raises on the query text, in every session and
\* whatever the data; the exception leaves process_log_data and main().
\* Lines 128-130, the write of songplays_table, are never reached, and
\* song_df is not used.
SongplaysSql ==
    /\ pc = "query"
    /\ ParseResult(StringLiteralAliases) # None
    /\ Raised("query", ParseResult(StringLiteralAliases))
    /\ UNCHANGED <<run, cfgFile, config, environ, songInput, logInput,
                   df, song_df, songs_table, artists_table,
                   users_table, time_table, songplays_table, written,
                   firstRun>>

\* The positions at which the engine or the storage connector can raise.
Operations ==
    {"bootstrap", "song_read", "songs_write", "artists_write", "log_read",
     "users_write", "time_write", "songs_reread"}

\* write.mode('overwrite').parquet(path) that raises: the overwrite first
\* deletes what the path holds and then writes, without atomicity, so the
\* path keeps its old rows (raised before the delete) or holds any part of
\* the new rows, none of them included.
FailedOverwrite(old, results) ==
    {old} \cup UNION { SUBSET t : t \in results }

\* An operation raises (storage unavailable, connector not resolved).  No
\* function of etl.py has an exception handler: the exception leaves
\* main() and the process ends.  A write that raises leaves its own table
\* as FailedOverwrite says; the other tables are not touched.
OperationFails ==
    /\ pc \in Operations
    /\ Raised(pc, "Exception")
    /\ songs_table' \in
          IF pc = "songs_write"
          THEN FailedOverwrite(songs_table, SongsTableResults(df))
          ELSE {songs_table}
    /\ artists_table' \in
          IF pc = "artists_write"
          THEN FailedOverwrite(artists_table, ArtistsTableResults(df))
          ELSE {artists_table}
    /\ users_table' \in
          IF pc = "users_write"
          THEN FailedOverwrite(users_table, UsersTableResults(df))
          ELSE {users_table}
    /\ time_table' \in
          IF pc = "time_write"
          THEN FailedOverwrite(time_table, TimeTableResults(df))
          ELSE {time_table}
    /\ UNCHANGED songplays_table
    /\ UNCHANGED <<run, cfgFile, config, environ, songInput, logInput,
                   df, song_df, written, firstRun>>

\* The job is started again, on unchanged input, after a run that no
\* failure of the environment cut short: the run ended at line 111.
MainAgain ==
    /\ pc = "aborted"
    /\ failedAt = [at |-> "query", error |-> "ParseException"]
    /\ run < MaxRuns
    /\ run' = run + 1
    /\ firstRun' = IF run = 1 THEN Tables ELSE firstRun
    /\ pc' = "bootstrap"
    /\ failedAt' = NoFailure
    /\ df' = <<>>
    /\ song_df' = {}
    /\ written' = {}
    /\ UNCHANGED <<cfgFile, config, environ, songInput, logInput,
                   songs_table, artists_table, users_table, time_table,
                   songplays_table>>

Next ==
    \/ create_spark_session
    \/ ReadSongData
    \/ WriteSongsTable
    \/ WriteArtistsTable
    \/ ReadLogData
    \/ WriteUsersTable
    \/ WriteTimeTable
    \/ ReadSongsTable
    \/ SongplaysSql
    \/ OperationFails
    \/ MainAgain

Spec == Init /\ [][Next]_vars

----------------------------------------------------------------------------
(* Properties.                                                             *)

Rows(bag) == BagToSet(bag)

\* main() has returned normally.
Completed == pc = "done"

\* The run is over and no failure of the environment cut it short.
RunOver ==
    \/ Completed
    \/ pc = "aborted" /\ failedAt = [at |-> "query", error |-> "ParseException"]

UniqueKey(table, key) ==
    \A r1, r2 \in table : r1[key] = r2[key] => r1 = r2

Keys(rows, key) == { r[key] : r \in rows }

\* Some key value is carried by two input rows that differ in the columns.
HasConflict(frame, cols, key) ==
    \E r1, r2 \in Select(frame, cols) : r1[key] = r2[key] /\ r1 # r2

\* C1: the songs table has no two rows with the same song_id, the artists
\* table no two rows with the same artist_id and the users table no two
\* rows with the same userId, in every state and so when the run is over.
C1_UniquePrimaryKeys ==
    /\ UniqueKey(songs_table, "song_id")
    /\ UniqueKey(artists_table, "artist_id")
    /\ UniqueKey(users_table, "userId")

\* A run that is over, with the three tables written, whose input repeats
\* a song_id, an artist_id and a userId on rows that differ.
C1_Witness ==
    /\ RunOver
    /\ {"songs", "artists", "users"} \subseteq written
    /\ HasConflict(songInput, SongsTableColumns, "song_id")
    /\ HasConflict(songInput, ArtistsTableColumns, "artist_id")
    /\ HasConflict(logInput, UsersTableColumns, "userId")

\* Log event l and song record s agree, character for character, on
\* (artist, song) and (artist name, title).
Matches(l, s) ==
    /\ l.artist # None /\ l.song # None
    /\ l.artist = s.artist_name /\ l.song = s.title

\* Row r carries the event fields of log event l.
FromEvent(r, l) ==
    /\ r.user_id = l.userId /\ r.level = l.level
    /\ r.session_id = l.sessionId /\ r.location = l.location
    /\ r.user_agent = l.userAgent
    /\ r.start_time.s = l.ts.s /\ r.start_time.us = 1000 * l.ts.ms

MatchedEvents ==
    { i \in DOMAIN logInput :
        \E j \in DOMAIN songInput : Matches(logInput[i], songInput[j]) }

\* C2: in every state, and so when the run is over, every row of songplays
\* comes from a log event of the input whose (artist, song) equals,
\* character for character, the (artist name, title) of a song record of
\* the input; an event without such a record has no row.
C2_OnlyMatchedEvents ==
    \A r \in Rows(songplays_table) :
        \E i \in MatchedEvents : FromEvent(r, logInput[i])

\* A run that is over on an input with a song record and a log event that
\* matches no song record; songplays has no row of that event.
C2_Witness ==
    /\ RunOver
    /\ songInput # <<>>
    /\ \E i \in DOMAIN logInput :
          /\ i \notin MatchedEvents
          /\ \A r \in Rows(songplays_table) : ~FromEvent(r, logInput[i])

\* C3: a run that no failure of the environment cut short completes, and
\* then songplays holds exactly one row for each log event of the input
\* that matches a song record, also when several song records share artist
\* name and title: a matched event is never dropped.
C3_OneRowPerMatchedEvent ==
    RunOver =>
        BagCardinality(songplays_table) = Cardinality(MatchedEvents)

\* C4: when a second run on unchanged input is over, each of the five
\* tables is identical to what the first run left.
C4_SecondRunIdentical ==
    (RunOver /\ run = 2) => Tables = firstRun

\* C5: the steps of a run go bootstrap, song stage, log stage; the join
\* happens, after the song stage of the same run wrote the songs table,
\* and it uses the song records written by that run: every fact row refers
\* to a song of the re-read songs table.
C5_JoinUsesWrittenSongs ==
    RunOver =>
        /\ {"songs", "songplays"} \subseteq written
        /\ \A r \in Rows(songplays_table) :
              \E s \in song_df :
                  s.song_id = r.song_id /\ s.artist_id = r.artist_id

SongStageTables == {"songs", "artists"}
LogStageTables == {"users", "time", "songplays"}

\* C6 as stated: no aborted run has overwritten some output tables of a
\* stage and not the others.
C6_NoPartialOutcome ==
    pc = "aborted" =>
        /\ SongStageTables \subseteq written \/ SongStageTables \cap written = {}
        /\ LogStageTables \subseteq written \/ LogStageTables \cap written = {}

\* The tables whose write has returned when the operation at a position
\* begins.
WrittenBefore(at) ==
    CASE at \in {"bootstrap", "song_read", "songs_write"} -> {}
      [] at = "artists_write" -> {"songs"}
      [] at \in {"log_read", "users_write"} -> {"songs", "artists"}
      [] at = "time_write" -> {"songs", "artists", "users"}
      [] at \in {"songs_reread", "query"} ->
             {"songs", "artists", "users", "time"}

\* C6 (amended): an operation that raised leaves the run aborted, with
\* exactly the tables overwritten whose write returned before the failing
\* operation, each of them holding its complete new rows; the song stage
\* can abort with songs overwritten and artists not, and songplays is
\* never overwritten.
C6_AbortKeepsCompletedWrites ==
    /\ failedAt.at # None => pc = "aborted"
    /\ pc = "aborted" => written = WrittenBefore(failedAt.at)
    /\ "songs" \in written => songs_table \in SongsTableResults(songInput)
    /\ "artists" \in written =>
          artists_table \in ArtistsTableResults(songInput)
    /\ "users" \in written => users_table \in UsersTableResults(logInput)
    /\ "time" \in written => time_table \in TimeTableResults(logInput)
    /\ "songplays" \notin written

\* The song stage aborted at the write of artists, after songs was
\* overwritten.
C6_Witness ==
    /\ pc = "aborted"
    /\ failedAt.at = "artists_write"
    /\ written = {"songs"}

\* dl.cfg supplies a credential: as an option or as a section of that name.
Supplies(file, name) == \E o \in file : o[1] = name \/ o[2] = name

\* C7: once the module body is through with a dl.cfg that supplies both
\* credentials, both are exported and the run proceeds to the bootstrap.
C7_CredentialsExported ==
    ( /\ pc \notin {"load_config", "export"}
      /\ Supplies(cfgFile, "AWS_ACCESS_KEY_ID")
      /\ Supplies(cfgFile, "AWS_SECRET_ACCESS_KEY") )
    => /\ pc = "bootstrap"
       /\ environ.AWS_ACCESS_KEY_ID # None
       /\ environ.AWS_SECRET_ACCESS_KEY # None

\* Number of ISO weeks of a year.
WeeksInYear(y) ==
    LET p(n) == (n + n \div 4 - n \div 100 + n \div 400) % 7
    IN  IF p(y) = 4 \/ p(y - 1) = 3 THEN 53 ELSE 52

\* ISO week of a day number, from the ordinal day and the weekday.
CalendarWeek(days) ==
    LET y       == CivilFromDays(days).year
        ordinal == days - DaysFromCivil(y, 1, 1) + 1
        w       == (ordinal - IsoWeekday(days) + 10) \div 7
    IN  IF w < 1 THEN WeeksInYear(y - 1)
        ELSE IF w > WeeksInYear(y) THEN 1
        ELSE w

\* Row r of the time table decomposes the instant ts: the hour that begins
\* at r's year, month, day and hour contains ts, and the week is the ISO
\* week of that day.
Decomposes(r, ts) ==
    LET dayNo == DaysFromCivil(r.year, r.month, r.day)
        start == dayNo * 86400 + r.hour * 3600
    IN  /\ r.month \in 1..12 /\ r.day \in 1..31 /\ r.hour \in 0..23
        /\ start <= ts.s /\ ts.s < start + 3600
        /\ r.week = CalendarWeek(dayNo)
        /\ r.start_time[1] = r.year /\ r.start_time[2] = r.month
        /\ r.start_time[3] = r.day /\ r.start_time[4] = r.hour

\* C8: once the time table is written, no two rows share start_time, every
\* row is the calendar decomposition of the ts of a log event whose
\* datetime is its start_time, and the datetime of every log event is the
\* start_time of exactly one row.
C8_TimeTable ==
    "time" \in written =>
        /\ UniqueKey(time_table, "start_time")
        /\ \A r \in time_table :
              \E i \in DOMAIN logInput :
                  /\ r.start_time = get_datetime(logInput[i].ts)
                  /\ Decomposes(r, logInput[i].ts)
        /\ \A i \in DOMAIN logInput :
              Cardinality({ r \in time_table :
                  r.start_time = get_datetime(logInput[i].ts) }) = 1

\* A run that is over, with the time table written, on two log events with
\* the same ts.
C8_Witness ==
    /\ RunOver
    /\ "time" \in written
    /\ Len(logInput) = 2
    /\ logInput[1].ts = logInput[2].ts
    /\ Cardinality(time_table) = 1

\* C9: when a run that no failure of the environment cut short is over,
\* every pair of a log event and a song record of the input that match has
\* its row in songplays: start_time, month and year of ts / 1000, the
\* event's user, level, session, location and agent, the record's song_id
\* and artist_id.
C9_RowBuiltFromPair ==
    RunOver =>
        \A i \in DOMAIN logInput : \A j \in DOMAIN songInput :
            Matches(logInput[i], songInput[j]) =>
                \E r \in Rows(songplays_table) :
                    /\ FromEvent(r, logInput[i])
                    /\ r.month = CivilFromDays(logInput[i].ts.s \div 86400).month
                    /\ r.year = CivilFromDays(logInput[i].ts.s \div 86400).year
                    /\ r.song_id = songInput[j].song_id
                    /\ r.artist_id = songInput[j].artist_id

\* C10: once written, a dimension table has exactly the keys of the input
\* records, and each of its rows is the projection of an input record.
C10_DedupKeepsKeys ==
    /\ "songs" \in written =>
          /\ Keys(songs_table, "song_id")
               = { songInput[i].song_id : i \in DOMAIN songInput }
          /\ songs_table \subseteq Select(songInput, SongsTableColumns)
    /\ "artists" \in written =>
          /\ Keys(artists_table, "artist_id")
               = { songInput[i].artist_id : i \in DOMAIN songInput }
          /\ artists_table \subseteq Select(songInput, ArtistsTableColumns)
    /\ "users" \in written =>
          /\ Keys(users_table, "userId")
               = { logInput[i].userId : i \in DOMAIN logInput }
          /\ users_table \subseteq Select(logInput, UsersTableColumns)

\* A run that is over in which a key with differing rows lost a row in
\* each of the three tables.
C10_Witness ==
    /\ RunOver
    /\ {"songs", "artists", "users"} \subseteq written
    /\ Cardinality(songs_table) < Cardinality(Select(songInput, SongsTableColumns))
    /\ Cardinality(artists_table) < Cardinality(Select(songInput, ArtistsTableColumns))
    /\ Cardinality(users_table) < Cardinality(Select(logInput, UsersTableColumns))

====
